---- MODULE Spec2Model ----
(***************************************************************************)
(* TM1py/Utils/Utils.py: the case-and-space-insensitive ordered            *)
(* dictionaries (CaseAndSpaceInsensitiveDict, CaseAndSpaceInsensitive-     *)
(* TuplesDict) and build_content_from_cellset, which flattens a raw        *)
(* cellset into such a dictionary.                                         *)
(*                                                                         *)
(* A Python str is a sequence of one-character strings, so that lower(),   *)
(* replace(' ', '') and startswith() are computed character by character.  *)
(***************************************************************************)
EXTENDS Integers, Sequences, FiniteSets, TLC

VARIABLES
    cls,        \* which of the two dictionary classes the client uses
    heap,       \* heap[a]: the _store (an OrderedDict) of the dictionary at a
    ref,        \* ref[i]: the dictionary the client's variable m_i refers to
    instances,  \* the variables m_i the client uses
    raw_cellset_as_dict,  \* build_content_from_cellset: argument
    cell_properties,      \* build_content_from_cellset: argument
    top,                  \* build_content_from_cellset: argument
    pc,                   \* build_content_from_cellset: position in the body
    content_as_dict,      \* its local: the _store of the result dictionary
    elements_on_axe2,     \* its local: the title elements
    elements_on_axe1,     \* its local: the elements of the current row
    ordinal_cells,        \* its local: running cell index
    ordinal_axe1,         \* its local: row index
    ordinal_axe0,         \* its local: column index
    inner_break,          \* TRUE when the inner loop was left by line 112
    cells_read,           \* the indices of Cells that line 107 has read
    result                \* what the call returned, or how it failed

mapvars == <<cls, heap, ref, instances>>
flatvars == <<raw_cellset_as_dict, cell_properties, top, pc, content_as_dict,
              elements_on_axe2, elements_on_axe1, ordinal_cells, ordinal_axe1,
              ordinal_axe0, inner_break, cells_read, result>>
vars == <<cls, heap, ref, instances, raw_cellset_as_dict, cell_properties, top, pc,
          content_as_dict, elements_on_axe2, elements_on_axe1, ordinal_cells,
          ordinal_axe1, ordinal_axe0, inner_break, cells_read, result>>

\* an optional argument: None is <<>>, the integer n is <<n>>
None == <<>>
Some(n) == <<n>>

\* the outcome of a call
Running == [status |-> "running"]
Returned(value) == [status |-> "returned", value |-> value]
Raised(error) == [status |-> "raised", error |-> error]

(***************************************************************************)
(* Python str methods                                                      *)
(***************************************************************************)

\* str.lower() on one character
lower_char(c) ==
    CASE c = "A" -> "a"
      [] c = "B" -> "b"
      [] c = "C" -> "c"
      [] c = "X" -> "x"
      [] c = "Y" -> "y"
      [] OTHER -> c

\* str.lower()
str_lower(s) == [i \in 1..Len(s) |-> lower_char(s[i])]

IsNotSpace(c) == c # " "

\* str.replace(' ', '')
str_replace_space(s) == SelectSeq(s, IsNotSpace)

\* str.startswith(prefix)
str_startswith(s, prefix) ==
    /\ Len(prefix) <= Len(s)
    /\ SubSeq(s, 1, Len(prefix)) = prefix

KeyError == "KeyError"
IndexError == "IndexError"

(***************************************************************************)
(* collections.OrderedDict: a sequence of [k, v] records, in insertion     *)
(* order, with no key twice.                                               *)
(***************************************************************************)

OD_has(od, k) == \E i \in 1..Len(od) : od[i].k = k

OD_index(od, k) == CHOOSE i \in 1..Len(od) : od[i].k = k

\* od[k]
OD_get(od, k) == od[OD_index(od, k)].v

\* od[k] = v: an existing key keeps its position, a new key goes last
OD_set(od, k, v) ==
    IF OD_has(od, k)
    THEN [od EXCEPT ![OD_index(od, k)].v = v]
    ELSE Append(od, [k |-> k, v |-> v])

\* del od[k]
OD_del(od, k) ==
    LET i == OD_index(od, k)
    IN  SubSeq(od, 1, i - 1) \o SubSeq(od, i + 1, Len(od))

\* od.values()
OD_values(od) == [i \in 1..Len(od) |-> od[i].v]

\* od.keys()
OD_keys(od) == [i \in 1..Len(od) |-> od[i].k]

(***************************************************************************)
(* CaseAndSpaceInsensitiveDict                                             *)
(***************************************************************************)

\* key.lower().replace(' ', '')
Dict_adjust(key) == str_replace_space(str_lower(key))

\* a __setitem__ that leaves the cased key of an entry it overwrites
Dict_setitem_keeps_first_key(st, key, value) ==
    IF OD_has(st, Dict_adjust(key))
    THEN OD_set(st, Dict_adjust(key), <<OD_get(st, Dict_adjust(key))[1], value>>)
    ELSE OD_set(st, Dict_adjust(key), <<key, value>>)

Dict_setitem(st, key, value) == OD_set(st, Dict_adjust(key), <<key, value>>)

Dict_contains(st, key) == OD_has(st, Dict_adjust(key))

\* a __getitem__ that folds the case of the key and keeps its spaces
Dict_getitem_keeps_spaces(st, key) ==
    IF OD_has(st, str_lower(key)) THEN OD_get(st, str_lower(key))[2]
    ELSE KeyError

\* the value, or KeyError when _store has no such key
Dict_getitem(st, key) ==
    IF OD_has(st, Dict_adjust(key)) THEN OD_get(st, Dict_adjust(key))[2]
    ELSE KeyError

Dict_delitem(st, key) == OD_del(st, Dict_adjust(key))

\* __iter__: the cased keys, in the order of _store
Dict_iter(st) == [i \in 1..Len(st) |-> st[i].v[1]]

Dict_len(st) == Len(st)

\* adjusted_items(), as dict(...) of it: the set of (adjusted key, value)
Dict_adjusted_items(st) == {<<st[i].k, st[i].v[2]>> : i \in 1..Len(st)}

Dict_adjusted_keys(st) == OD_keys(st)

\* __init__(data) for data a sequence of (key, value) pairs: update() sets
\* them one after the other
RECURSIVE Dict_init(_)
Dict_init(data) ==
    IF data = <<>> THEN <<>>
    ELSE Dict_setitem(Dict_init(SubSeq(data, 1, Len(data) - 1)),
                      data[Len(data)][1], data[Len(data)][2])

\* __init__(other) for other a Mapping: update() sets self[key] = other[key]
\* for each key other yields
Dict_from_mapping(other) ==
    Dict_init([i \in 1..Len(other) |->
                 <<Dict_iter(other)[i], Dict_getitem(other, Dict_iter(other)[i])>>])

\* an __eq__ that compares the items in their order
Dict_eq_ordered(st, other) ==
    [i \in 1..Len(st) |-> <<st[i].k, st[i].v[2]>>]
        = [i \in 1..Len(other) |-> <<other[i].k, other[i].v[2]>>]

Dict_eq(st, other) ==
    Dict_adjusted_items(st) = Dict_adjusted_items(Dict_from_mapping(other))

Dict_copy(st) == Dict_init(OD_values(st))

(***************************************************************************)
(* CaseAndSpaceInsensitiveTuplesDict                                       *)
(***************************************************************************)

\* tuple([item.lower().replace(' ', '') for item in key])
TuplesDict_adjust(key) ==
    [i \in 1..Len(key) |-> str_replace_space(str_lower(key[i]))]

\* a __setitem__ that removes the entry it overwrites and adds it anew
TuplesDict_setitem_reappends(st, key, value) ==
    IF OD_has(st, TuplesDict_adjust(key))
    THEN Append(OD_del(st, TuplesDict_adjust(key)),
                [k |-> TuplesDict_adjust(key), v |-> <<key, value>>])
    ELSE OD_set(st, TuplesDict_adjust(key), <<key, value>>)

TuplesDict_setitem(st, key, value) ==
    OD_set(st, TuplesDict_adjust(key), <<key, value>>)

TuplesDict_contains(st, key) == OD_has(st, TuplesDict_adjust(key))

TuplesDict_getitem(st, key) ==
    IF OD_has(st, TuplesDict_adjust(key))
    THEN OD_get(st, TuplesDict_adjust(key))[2]
    ELSE KeyError

TuplesDict_delitem(st, key) == OD_del(st, TuplesDict_adjust(key))

TuplesDict_iter(st) == [i \in 1..Len(st) |-> st[i].v[1]]

TuplesDict_len(st) == Len(st)

TuplesDict_adjusted_items(st) == {<<st[i].k, st[i].v[2]>> : i \in 1..Len(st)}

TuplesDict_adjusted_keys(st) == OD_keys(st)

RECURSIVE TuplesDict_init(_)
TuplesDict_init(data) ==
    IF data = <<>> THEN <<>>
    ELSE TuplesDict_setitem(TuplesDict_init(SubSeq(data, 1, Len(data) - 1)),
                            data[Len(data)][1], data[Len(data)][2])

TuplesDict_from_mapping(other) ==
    TuplesDict_init([i \in 1..Len(other) |->
        <<TuplesDict_iter(other)[i],
          TuplesDict_getitem(other, TuplesDict_iter(other)[i])>>])

TuplesDict_eq(st, other) ==
    TuplesDict_adjusted_items(st)
        = TuplesDict_adjusted_items(TuplesDict_from_mapping(other))

TuplesDict_copy(st) == TuplesDict_init(OD_values(st))

(***************************************************************************)
(* The calls a client makes on two instances of one class                  *)
(***************************************************************************)

\* "Travel Expenses" and "travelexpenses", in small: "A b" and "ab"
LabelAb1 == <<"A", " ", "b">>
LabelAb2 == <<"a", "b">>
LabelB1 == <<" ", "B">>
LabelA1 == <<"a", " ">>

Labels == {LabelAb1, LabelAb2, LabelB1, LabelA1}
FewLabels == {LabelAb1, LabelAb2, LabelB1}

TupleKeys ==
    {<<LabelAb1, LabelB1>>, <<LabelAb2, <<"b">>>>, <<LabelB1, LabelAb1>>,
     <<LabelAb1>>}
FewTupleKeys ==
    {<<LabelAb1, LabelB1>>, <<LabelAb2, <<"b">>>>, <<LabelB1, LabelAb1>>}

\* the payloads are opaque to the dictionaries
Values == {"v1", "v2"}

Instances == {1, 2}
Other(i) == 3 - i
Addresses == {1, 2}

\* the keys the client writes with: a client of one dictionary uses more
\* keys than a client of two
Keys ==
    IF cls = "Dict"
    THEN (IF instances = {1} THEN Labels ELSE FewLabels)
    ELSE (IF instances = {1} THEN TupleKeys ELSE FewTupleKeys)

\* the dictionary m_i
Store(i) == heap[ref[i]]

\* a copy() that returns self
SameObject(a) == a

\* the object a constructor call made by the dictionary at address a
\* allocates: an address that dictionary does not occupy
NewObject(a) == CHOOSE b \in Addresses : b # a

\* m_1 = Cls(), m_2 = Cls()
MapInit ==
    /\ cls \in {"Dict", "TuplesDict"}
    /\ heap = [a \in Addresses |-> <<>>]
    /\ ref = [i \in Instances |-> i]
    /\ instances \in {{1}, Instances}

\* m_i[key] = value
DictSet(i, key, value) ==
    /\ cls = "Dict"
    /\ heap' = [heap EXCEPT ![ref[i]] = Dict_setitem(@, key, value)]
    /\ UNCHANGED <<cls, ref, instances>>

\* del m_i[key]
DictDel(i, key) ==
    /\ cls = "Dict"
    /\ IF Dict_contains(Store(i), key)
       THEN heap' = [heap EXCEPT ![ref[i]] = Dict_delitem(@, key)]
       ELSE UNCHANGED heap   \* KeyError: nothing is removed
    /\ UNCHANGED <<cls, ref, instances>>

\* m_j = m_i.copy(), for j the other variable
DictCopy(i) ==
    /\ cls = "Dict"
    /\ Other(i) \in instances
    /\ heap' = [heap EXCEPT ![NewObject(ref[i])] = Dict_copy(Store(i))]
    /\ ref' = [ref EXCEPT ![Other(i)] = NewObject(ref[i])]
    /\ UNCHANGED <<cls, instances>>

TuplesDictSet(i, key, value) ==
    /\ cls = "TuplesDict"
    /\ heap' = [heap EXCEPT ![ref[i]] = TuplesDict_setitem(@, key, value)]
    /\ UNCHANGED <<cls, ref, instances>>

TuplesDictDel(i, key) ==
    /\ cls = "TuplesDict"
    /\ IF TuplesDict_contains(Store(i), key)
       THEN heap' = [heap EXCEPT ![ref[i]] = TuplesDict_delitem(@, key)]
       ELSE UNCHANGED heap   \* KeyError: nothing is removed
    /\ UNCHANGED <<cls, ref, instances>>

TuplesDictCopy(i) ==
    /\ cls = "TuplesDict"
    /\ Other(i) \in instances
    /\ heap' = [heap EXCEPT ![NewObject(ref[i])] = TuplesDict_copy(Store(i))]
    /\ ref' = [ref EXCEPT ![Other(i)] = NewObject(ref[i])]
    /\ UNCHANGED <<cls, instances>>

FlatIdle ==
    /\ raw_cellset_as_dict = [Cube |-> [Dimensions |-> <<>>], Axes |-> <<>>,
                              Cells |-> <<>>]
    /\ cell_properties = <<>>
    /\ top = None
    /\ pc = "idle"
    /\ content_as_dict = <<>>
    /\ elements_on_axe2 = <<>>
    /\ elements_on_axe1 = <<>>
    /\ ordinal_cells = 0
    /\ ordinal_axe1 = 0
    /\ ordinal_axe0 = 0
    /\ inner_break = FALSE
    /\ cells_read = {}
    /\ result = Running

MapNext ==
    \/ \E i \in instances, key \in Keys, value \in Values :
            DictSet(i, key, value) /\ UNCHANGED flatvars
    \/ \E i \in instances, key \in Keys :
            DictDel(i, key) /\ UNCHANGED flatvars
    \/ \E i \in instances : DictCopy(i) /\ UNCHANGED flatvars
    \/ \E i \in instances, key \in Keys, value \in Values :
            TuplesDictSet(i, key, value) /\ UNCHANGED flatvars
    \/ \E i \in instances, key \in Keys :
            TuplesDictDel(i, key) /\ UNCHANGED flatvars
    \/ \E i \in instances : TuplesDictCopy(i) /\ UNCHANGED flatvars

InitMap == MapInit /\ FlatIdle

SpecMap == InitMap /\ [][MapNext]_vars

(***************************************************************************)
(* Properties of the dictionaries, checked under SpecMap                   *)
(***************************************************************************)

\* the normalized form of a label: lower-cased, spaces removed
NormalLabel(label) == str_replace_space(str_lower(label))

\* the normalized form of a key of the class in use
Normal(key) ==
    IF cls = "Dict" THEN NormalLabel(key)
    ELSE [i \in 1..Len(key) |-> NormalLabel(key[i])]

\* the keys a client reads with: those it writes with, and one more variant
QueryKeys ==
    IF cls = "Dict" THEN Keys \cup {<<"A", "B", " ">>}
    ELSE Keys \cup {<<<<"A", "B">>, <<"B", " ">>>>}

GetItem(st, key) ==
    IF cls = "Dict" THEN Dict_getitem(st, key) ELSE TuplesDict_getitem(st, key)

Iterate(st) == IF cls = "Dict" THEN Dict_iter(st) ELSE TuplesDict_iter(st)

Length(st) == IF cls = "Dict" THEN Dict_len(st) ELSE TuplesDict_len(st)

KeysNormalized(st) ==
    IF cls = "Dict" THEN Dict_adjusted_keys(st) ELSE TuplesDict_adjusted_keys(st)

Equals(st, other) ==
    IF cls = "Dict" THEN Dict_eq(st, other) ELSE TuplesDict_eq(st, other)

SetStep(i, key, value) == DictSet(i, key, value) \/ TuplesDictSet(i, key, value)

DelStep(i, key) == DictDel(i, key) \/ TuplesDictDel(i, key)

CopyStep(i) == DictCopy(i) \/ TuplesDictCopy(i)

Range(seq) == {seq[j] : j \in 1..Len(seq)}

\* everything a client can observe of a dictionary
Observed(st) ==
    [items |-> [j \in 1..Len(Iterate(st)) |->
                   <<Iterate(st)[j], GetItem(st, Iterate(st)[j])>>],
     normalized |-> KeysNormalized(st),
     length |-> Length(st),
     reads |-> [k \in QueryKeys |-> GetItem(st, k)]]

\* C1: a set(L, v) makes get(L') return v for every L' of the same normalized
\* form, and a set or delete of a key of another normalized form leaves
\* get(L') as it was
C1_SetThenGet ==
    [][\A i \in instances, key \in Keys :
         /\ \A value \in Values :
              SetStep(i, key, value) =>
                 \A k2 \in QueryKeys :
                    Normal(k2) = Normal(key) => GetItem(Store(i)', k2) = value
         /\ ((\E value \in Values : SetStep(i, key, value)) \/ DelStep(i, key)) =>
                 \A k2 \in QueryKeys :
                    Normal(k2) # Normal(key) =>
                        GetItem(Store(i)', k2) = GetItem(Store(i), k2)
      ]_vars

\* a dictionary answers a key that was never written, of the normalized form
\* of a key that was
C1_Witness ==
    /\ cls = "Dict"
    /\ Iterate(Store(1)) = <<LabelAb1, LabelB1>>
    /\ GetItem(Store(1), <<"A", "B", " ">>) = "v2"
    /\ GetItem(Store(1), LabelAb2) = "v2"
    /\ GetItem(Store(1), <<"b">>) = "v1"

\* C2: one entry per normalized key, and the key iteration yields for it is
\* the key of the last set
C2_OneEntryLastKey ==
    /\ [](\A i \in instances :
            /\ Length(Store(i)) = Cardinality({Normal(k) : k \in Range(Iterate(Store(i)))})
            /\ Length(Store(i)) = Len(Iterate(Store(i))))
    /\ [][\A i \in instances, key \in Keys, value \in Values :
            SetStep(i, key, value) =>
               /\ \E j \in 1..Len(Iterate(Store(i)')) : Iterate(Store(i)')[j] = key
               /\ \A j \in 1..Len(Iterate(Store(i)')) :
                     Normal(Iterate(Store(i)')[j]) = Normal(key)
                        => Iterate(Store(i)')[j] = key
               /\ {k \in Range(Iterate(Store(i)')) : Normal(k) # Normal(key)}
                     = {k \in Range(Iterate(Store(i))) : Normal(k) # Normal(key)}
      ]_vars
    /\ [][\A i \in instances, value \in Values :
            (Iterate(Store(i)) = <<LabelAb1>> /\ DictSet(i, LabelAb2, value)) =>
               /\ Length(Store(i)') = 1
               /\ GetItem(Store(i)', LabelAb1) = value
               /\ Iterate(Store(i)') = <<LabelAb2>>
      ]_vars

\* m_2 is a copy of m_1 taken after set("A b", v1); set("ab", v2) on m_1
\* then left one entry, shown under the later key
C2_Witness ==
    /\ cls = "Dict"
    /\ Observed(Store(2)).items = <<<<LabelAb1, "v1">>>>
    /\ Observed(Store(1)).items = <<<<LabelAb2, "v2">>>>
    /\ GetItem(Store(1), LabelAb1) = "v2"

\* C3: a set of a present normalized key leaves the order of the entries as
\* it was, and a set of an absent one adds the entry last
C3_InsertionOrder ==
    [][\A i \in instances, key \in Keys, value \in Values :
         SetStep(i, key, value) =>
            IF Normal(key) \in Range(KeysNormalized(Store(i)))
            THEN /\ KeysNormalized(Store(i)') = KeysNormalized(Store(i))
                 /\ Len(Iterate(Store(i)')) = Len(Iterate(Store(i)))
                 /\ \A j \in 1..Len(Iterate(Store(i))) :
                       Normal(Iterate(Store(i))[j]) # Normal(key) =>
                          Observed(Store(i)').items[j] = Observed(Store(i)).items[j]
            ELSE /\ KeysNormalized(Store(i)') =
                       Append(KeysNormalized(Store(i)), Normal(key))
                 /\ Observed(Store(i)').items =
                       Append(Observed(Store(i)).items, <<key, value>>)
      ]_vars

\* m_2 is a copy of m_1 taken before the first of its two entries was set
\* again, under another spelling: the entry is still the first
C3_Witness ==
    /\ cls = "TuplesDict"
    /\ Length(Store(1)) = 2
    /\ KeysNormalized(Store(1)) = KeysNormalized(Store(2))
    /\ Iterate(Store(1))[1] # Iterate(Store(2))[1]
    /\ GetItem(Store(1), Iterate(Store(1))[1]) # GetItem(Store(2), Iterate(Store(1))[1])

\* C8: a copy shows what its source shows, and a set or delete on one of the
\* two changes nothing the other shows
C8_CopyIndependence ==
    [][\A i \in instances :
         /\ CopyStep(i) =>
               /\ Observed(Store(Other(i))') = Observed(Store(i))
               /\ Observed(Store(i)') = Observed(Store(i))
         /\ \A key \in Keys :
               ((\E value \in Values : SetStep(i, key, value)) \/ DelStep(i, key)) =>
                  Observed(Store(Other(i))') = Observed(Store(Other(i)))
      ]_vars

\* the two dictionaries hold the same keys in the same order, and one of the
\* two was written to since
C8_Witness ==
    /\ Length(Store(1)) = 2
    /\ Iterate(Store(1)) = Iterate(Store(2))
    /\ GetItem(Store(1), Iterate(Store(1))[1]) = "v1"
    /\ GetItem(Store(2), Iterate(Store(1))[1]) = "v2"

\* the pairs of normalized key and value a dictionary shows
Pairings(st) == {<<Normal(k), GetItem(st, k)>> : k \in Range(Iterate(st))}

\* C9: two dictionaries are equal exactly when they hold the same pairs of
\* normalized key and value
C9_Equality ==
    \A i \in instances :
        Equals(Store(i), Store(Other(i)))
            <=> Pairings(Store(i)) = Pairings(Store(Other(i)))

\* two equal dictionaries whose entries differ in order and in spelling
C9_Witness ==
    /\ cls = "Dict"
    /\ Iterate(Store(1)) = <<LabelAb1, LabelB1>>
    /\ Iterate(Store(2)) = <<LabelB1, LabelAb2>>
    /\ Equals(Store(1), Store(2))

(***************************************************************************)
(* sort_addresstuple                                                       *)
(***************************************************************************)

\* '[' + dimension + '].'
DimensionPrefix(dimension) == <<"[">> \o dimension \o <<"]", ".">>

\* [item for item in unsorted_addresstuple
\*  if item.startswith('[' + dimension + '].')]
address_element(dimension, unsorted_addresstuple) ==
    LET Matches(item) == str_startswith(item, DimensionPrefix(dimension))
    IN  SelectSeq(unsorted_addresstuple, Matches)

\* a sort that leaves out a dimension that nothing matched
sort_addresstuple_skips(dimension_order, unsorted_addresstuple) ==
    LET Matched(i) ==
            address_element(dimension_order[i], unsorted_addresstuple) # <<>>
        found == SelectSeq([i \in 1..Len(dimension_order) |-> i], Matched)
    IN  Returned([j \in 1..Len(found) |->
            address_element(dimension_order[found[j]], unsorted_addresstuple)[1]])

\* the sorted tuple; address_element[0] raises IndexError for a dimension
\* that nothing matched
sort_addresstuple(dimension_order, unsorted_addresstuple) ==
    IF \E i \in 1..Len(dimension_order) :
          address_element(dimension_order[i], unsorted_addresstuple) = <<>>
    THEN Raised(IndexError)
    ELSE Returned([i \in 1..Len(dimension_order) |->
            address_element(dimension_order[i], unsorted_addresstuple)[1]])

(***************************************************************************)
(* build_content_from_cellset                                              *)
(***************************************************************************)

\* the two failures of the call: both are Python IndexErrors, told apart by
\* the line that raises them
DimensionNotFound == "DimensionNotFound"   \* line 61, under line 103
StructureError == "StructureError"         \* line 107

\* [dim['Name'] for dim in raw_cellset_as_dict['Cube']['Dimensions']]
cube_dimensions ==
    LET dims == raw_cellset_as_dict.Cube.Dimensions
    IN  [i \in 1..Len(dims) |-> dims[i].Name]

axe0_as_dict == raw_cellset_as_dict.Axes[1]
axe1_as_dict == raw_cellset_as_dict.Axes[2]

\* [data['UniqueName'] for data in axe['Tuples'][ordinal]['Members']]
elements_on(axe, ordinal) ==
    LET tuples_as_dict == axe.Tuples[ordinal + 1].Members
    IN  [i \in 1..Len(tuples_as_dict) |-> tuples_as_dict[i].UniqueName]

\* an assignment that replaces the value dictionary of the entry
set_cell_property_replaces(st, key, cell_property, value) ==
    LET i == OD_index(st, TuplesDict_adjust(key))
    IN  [st EXCEPT ![i].v[2] = (cell_property :> value)]

\* content_as_dict[coordinates_sorted][cell_property] = value: the value
\* dictionary of the entry is changed in place
set_cell_property(st, key, cell_property, value) ==
    LET i == OD_index(st, TuplesDict_adjust(key))
    IN  [st EXCEPT ![i].v[2] = (cell_property :> value) @@ @]

\* a lookup that gives the last record for an ordinal past the end
read_cell_clamped(Cells, ordinal) ==
    IF ordinal < Len(Cells) THEN Returned(Cells[ordinal + 1])
    ELSE IF Cells # <<>> THEN Returned(Cells[Len(Cells)])
    ELSE Raised(IndexError)

\* raw_cellset_as_dict['Cells'][ordinal_cells]: the record, or IndexError
read_cell(Cells, ordinal) ==
    IF ordinal < Len(Cells) THEN Returned(Cells[ordinal + 1])
    ELSE Raised(IndexError)

\* lines 106-108 for the first n properties, with the cell record at hand
RECURSIVE read_cell_properties(_, _, _, _, _)
read_cell_properties(st, key, props, n, cell) ==
    IF n = 0 THEN st
    ELSE set_cell_property(read_cell_properties(st, key, props, n - 1, cell),
                           key, props[n], cell[props[n]])

\* a test that lets one more cell through
limit_reached_late(cells) == top # None /\ cells > top[1]

\* top is not None and ordinal_cells >= top
limit_reached(cells) == top # None /\ cells >= top[1]

\* lines 73-92
Setup ==
    /\ pc = "start"
    /\ content_as_dict' = TuplesDict_init(<<>>)
    /\ ordinal_cells' = 0
    /\ elements_on_axe2' =
          IF Len(raw_cellset_as_dict.Axes) > 2
          THEN elements_on(raw_cellset_as_dict.Axes[3], 0)
          ELSE <<>>
    /\ ordinal_axe1' = 0
    /\ pc' = "outer"
    /\ UNCHANGED <<raw_cellset_as_dict, cell_properties, top, elements_on_axe1,
                   ordinal_axe0, inner_break, cells_read, result>>

\* lines 93-97: the head of the loop over the rows
OuterLoop ==
    /\ pc = "outer"
    /\ IF ordinal_axe1 < axe1_as_dict.Cardinality
       THEN /\ elements_on_axe1' = elements_on(axe1_as_dict, ordinal_axe1)
            /\ ordinal_axe0' = 0
            /\ inner_break' = FALSE
            /\ pc' = "inner"
       ELSE /\ pc' = "return"
            /\ UNCHANGED <<elements_on_axe1, ordinal_axe0, inner_break>>
    /\ UNCHANGED <<raw_cellset_as_dict, cell_properties, top, content_as_dict,
                   elements_on_axe2, ordinal_cells, ordinal_axe1, cells_read,
                   result>>

\* line 98, when the columns are exhausted
InnerLoopEnd ==
    /\ pc = "inner"
    /\ ordinal_axe0 >= axe0_as_dict.Cardinality
    /\ pc' = "outer_tail"
    /\ UNCHANGED <<raw_cellset_as_dict, cell_properties, top, content_as_dict,
                   elements_on_axe2, elements_on_axe1, ordinal_cells,
                   ordinal_axe1, ordinal_axe0, inner_break, cells_read, result>>

\* lines 98-112: one pass of the loop over the columns
InnerLoopBody ==
    /\ pc = "inner"
    /\ ordinal_axe0 < axe0_as_dict.Cardinality
    /\ LET elements_on_axe0 == elements_on(axe0_as_dict, ordinal_axe0)
           coordinates == elements_on_axe0 \o elements_on_axe2 \o elements_on_axe1
           coordinates_sorted == sort_addresstuple(cube_dimensions, coordinates)
           empty_entry == TuplesDict_setitem(content_as_dict,
                                             coordinates_sorted.value, <<>>)
           cell == read_cell(raw_cellset_as_dict.Cells, ordinal_cells)
       IN  IF coordinates_sorted.status = "raised"
           THEN \* line 103 raises
                /\ pc' = "raised"
                /\ result' = Raised(DimensionNotFound)
                /\ UNCHANGED <<content_as_dict, ordinal_cells, ordinal_axe0,
                               inner_break, cells_read>>
           ELSE IF cell_properties # <<>> /\ cell.status = "raised"
           THEN \* line 107 raises, for the first property
                /\ content_as_dict' = empty_entry
                /\ pc' = "raised"
                /\ result' = Raised(StructureError)
                /\ UNCHANGED <<ordinal_cells, ordinal_axe0, inner_break,
                               cells_read>>
           ELSE /\ content_as_dict' =
                      IF cell_properties = <<>> THEN empty_entry
                      ELSE read_cell_properties(
                              empty_entry, coordinates_sorted.value,
                              cell_properties, Len(cell_properties), cell.value)
                /\ cells_read' =
                      IF cell_properties = <<>> THEN cells_read
                      ELSE cells_read \cup {ordinal_cells}
                /\ ordinal_axe0' = ordinal_axe0 + 1
                /\ ordinal_cells' = ordinal_cells + 1
                /\ inner_break' = limit_reached(ordinal_cells + 1)
                /\ pc' = IF limit_reached(ordinal_cells + 1)
                         THEN "outer_tail" ELSE "inner"
                /\ UNCHANGED result
    /\ UNCHANGED <<raw_cellset_as_dict, cell_properties, top, elements_on_axe2,
                   elements_on_axe1, ordinal_axe1>>

\* lines 113-115: the tail of the loop over the rows
OuterTail ==
    /\ pc = "outer_tail"
    /\ IF limit_reached(ordinal_cells)
       THEN /\ pc' = "return"
            /\ UNCHANGED ordinal_axe1
       ELSE /\ ordinal_axe1' = ordinal_axe1 + 1
            /\ pc' = "outer"
    /\ UNCHANGED <<raw_cellset_as_dict, cell_properties, top, content_as_dict,
                   elements_on_axe2, elements_on_axe1, ordinal_cells,
                   ordinal_axe0, inner_break, cells_read, result>>

\* line 116
Return ==
    /\ pc = "return"
    /\ result' = Returned(content_as_dict)
    /\ pc' = "done"
    /\ UNCHANGED <<raw_cellset_as_dict, cell_properties, top, content_as_dict,
                   elements_on_axe2, elements_on_axe1, ordinal_cells,
                   ordinal_axe1, ordinal_axe0, inner_break, cells_read>>

(***************************************************************************)
(* The cellsets the call is given                                          *)
(***************************************************************************)

DimA == <<"a">>
DimB == <<"b">>
DimC == <<"c">>

\* '[dim].[elem]'
UniqueName(dim, elem) == <<"[">> \o dim \o <<"]", ".", "[">> \o elem \o <<"]">>

Member(dim, elem) == [UniqueName |-> UniqueName(dim, elem)]

Tuple1(dim, elem) == [Members |-> <<Member(dim, elem)>>]

Axis(tuples) == [Cardinality |-> Len(tuples), Tuples |-> tuples]

\* axis 1: no row; one to three distinct rows; two rows that differ in case
\* only; a row whose dimension is written [A]; a row of two members
RowAxes ==
    { Axis(<<>>),
      Axis(<<Tuple1(DimA, <<"x">>)>>),
      Axis(<<Tuple1(DimA, <<"x">>), Tuple1(DimA, <<"y">>)>>),
      Axis(<<Tuple1(DimA, <<"x">>), Tuple1(DimA, <<"y">>),
             Tuple1(DimA, <<"z">>)>>),
      Axis(<<Tuple1(DimA, <<"x">>), Tuple1(DimA, <<"X", " ">>)>>),
      Axis(<<Tuple1(DimA, <<"x">>), Tuple1(<<"A">>, <<"y">>)>>),
      Axis(<<[Members |-> <<Member(DimA, <<"x">>), Member(DimC, <<"y">>)>>]>>) }

\* axis 0: no column; one or two distinct columns; two columns that differ
\* in case only; a second column of another dimension
ColumnAxes ==
    { Axis(<<>>),
      Axis(<<Tuple1(DimB, <<"x">>)>>),
      Axis(<<Tuple1(DimB, <<"x">>), Tuple1(DimB, <<"y">>)>>),
      Axis(<<Tuple1(DimB, <<"Y">>), Tuple1(DimB, <<"y">>)>>),
      Axis(<<Tuple1(DimB, <<"x">>), Tuple1(DimC, <<"x">>)>>) }

\* axis 2, when there is one
TitleAxis == Axis(<<Tuple1(DimC, <<"x">>)>>)

AxesChoices ==
    {<<c, r>> : c \in ColumnAxes, r \in RowAxes}
        \cup {<<c, r, TitleAxis>> : c \in ColumnAxes, r \in RowAxes}

DimensionChoices ==
    { <<[Name |-> DimA], [Name |-> DimB]>>,
      <<[Name |-> DimC], [Name |-> DimA], [Name |-> DimB]>> }

\* n cell records; record k holds the properties of the cell of ordinal k
CellRecords(n) == [k \in 1..n |-> [Value |-> 10 * (k - 1), Ordinal |-> k - 1]]

PropertyChoices == {<<>>, <<"Value">>, <<"Ordinal", "Value">>}

MaxTop == 7
MaxMissing == 2

Max(a, b) == IF a >= b THEN a ELSE b

FlatInit ==
    /\ \E dims \in DimensionChoices, axes \in AxesChoices, missing \in 0..MaxMissing :
          raw_cellset_as_dict =
              [Cube |-> [Dimensions |-> dims],
               Axes |-> axes,
               Cells |-> CellRecords(
                   Max(0, axes[1].Cardinality * axes[2].Cardinality - missing))]
    /\ cell_properties \in PropertyChoices
    /\ top \in {None} \cup {Some(n) : n \in 0..MaxTop}
    /\ pc = "start"
    /\ content_as_dict = <<>>
    /\ elements_on_axe2 = <<>>
    /\ elements_on_axe1 = <<>>
    /\ ordinal_cells = 0
    /\ ordinal_axe1 = 0
    /\ ordinal_axe0 = 0
    /\ inner_break = FALSE
    /\ cells_read = {}
    /\ result = Running

MapIdle ==
    /\ cls = "TuplesDict"
    /\ heap = [a \in Addresses |-> <<>>]
    /\ ref = [i \in Instances |-> i]
    /\ instances = {1}

FlatNext ==
    \/ Setup /\ UNCHANGED mapvars
    \/ OuterLoop /\ UNCHANGED mapvars
    \/ InnerLoopEnd /\ UNCHANGED mapvars
    \/ InnerLoopBody /\ UNCHANGED mapvars
    \/ OuterTail /\ UNCHANGED mapvars
    \/ Return /\ UNCHANGED mapvars

InitFlatten == FlatInit /\ MapIdle

SpecFlatten == InitFlatten /\ [][FlatNext]_vars

(***************************************************************************)
(* Properties of build_content_from_cellset, checked under SpecFlatten     *)
(***************************************************************************)

\* the numbers of row tuples and of column tuples
R == Len(raw_cellset_as_dict.Axes[2].Tuples)
C == Len(raw_cellset_as_dict.Axes[1].Tuples)

\* the unique names of tuple t (from 0) of axis a (from 0)
MemberNames(a, t) ==
    LET members == raw_cellset_as_dict.Axes[a + 1].Tuples[t + 1].Members
    IN  [m \in 1..Len(members) |-> members[m].UniqueName]

TitleNames ==
    IF Len(raw_cellset_as_dict.Axes) > 2 THEN MemberNames(2, 0) ELSE <<>>

\* col_elements ++ title_elements ++ row_elements of row r and column c
RawCoordinate(r, c) == MemberNames(0, c) \o TitleNames \o MemberNames(1, r)

DimensionNames ==
    [i \in 1..Len(raw_cellset_as_dict.Cube.Dimensions) |->
        raw_cellset_as_dict.Cube.Dimensions[i].Name]

\* label begins with "[" + d + "]."
BeginsWithDimension(label, d) ==
    /\ Len(label) >= Len(d) + 3
    /\ label[1] = "["
    /\ \A j \in 1..Len(d) : label[j + 1] = d[j]
    /\ label[Len(d) + 2] = "]"
    /\ label[Len(d) + 3] = "."

MissingDimension(r, c) ==
    \E i \in 1..Len(DimensionNames) :
        \A j \in 1..Len(RawCoordinate(r, c)) :
            ~BeginsWithDimension(RawCoordinate(r, c)[j], DimensionNames[i])

\* the dimension-ordered coordinate: for each dimension, the first label of
\* the raw coordinate that begins with it
ExpectedCoordinate(r, c) ==
    LET raw == RawCoordinate(r, c)
        First(d) == CHOOSE j \in 1..Len(raw) :
                        /\ BeginsWithDimension(raw[j], d)
                        /\ \A j2 \in 1..(j - 1) : ~BeginsWithDimension(raw[j2], d)
    IN  [i \in 1..Len(DimensionNames) |-> raw[First(DimensionNames[i])]]

NormalTuple(t) == [i \in 1..Len(t) |-> NormalLabel(t[i])]

\* the cells, numbered row-major, column-fastest
RowOf(k) == k \div C
ColumnOf(k) == k % C

DistinctCoordinates ==
    /\ \A k \in 0..(R * C - 1) : ~MissingDimension(RowOf(k), ColumnOf(k))
    /\ \A k1, k2 \in 0..(R * C - 1) :
          k1 # k2 =>
             NormalTuple(ExpectedCoordinate(RowOf(k1), ColumnOf(k1)))
                # NormalTuple(ExpectedCoordinate(RowOf(k2), ColumnOf(k2)))

\* the requested properties of cell record k
ExpectedProperties(k) ==
    [p \in Range(cell_properties) |-> raw_cellset_as_dict.Cells[k + 1][p]]

\* res holds exactly the first n cells, in their order
HoldsFirstCells(res, n) ==
    /\ TuplesDict_len(res) = n
    /\ Len(TuplesDict_iter(res)) = n
    /\ \A k \in 0..(n - 1) :
          /\ TuplesDict_iter(res)[k + 1] = ExpectedCoordinate(RowOf(k), ColumnOf(k))
          /\ DOMAIN res[k + 1].v[2] = Range(cell_properties)
          /\ TuplesDict_getitem(res, ExpectedCoordinate(RowOf(k), ColumnOf(k)))
                = ExpectedProperties(k)

Min(a, b) == IF a <= b THEN a ELSE b

\* C4: with no limit and R * C distinct coordinates, the result holds
\* exactly the R * C cells, row-major, each under its dimension-ordered
\* coordinate with the requested properties of its cell record
C4_FlattenAll ==
    (pc = "done" /\ top = None /\ DistinctCoordinates)
        => HoldsFirstCells(result.value, R * C)

\* three rows and two columns, two properties, no limit: six entries
C4_Witness ==
    /\ pc = "done"
    /\ top = None
    /\ R = 3 /\ C = 2
    /\ Len(DimensionNames) = 3
    /\ cell_properties = <<"Ordinal", "Value">>
    /\ DistinctCoordinates
    /\ TuplesDict_len(result.value) = 6

\* C5: with a limit L >= 1 the result holds exactly the first min(L, R * C)
\* cells, no cell record of index >= L is read, and the outer loop breaks
\* exactly when the inner loop did
C5_Truncation ==
    (top # None /\ top[1] >= 1) =>
        /\ (pc = "done" /\ DistinctCoordinates)
              => HoldsFirstCells(result.value, Min(top[1], R * C))
        /\ \A k \in cells_read : k < top[1]
        /\ pc = "outer_tail" => (inner_break <=> ordinal_cells >= top[1])

\* three rows and two columns cut at three cells, in the middle of a row
C5_Witness ==
    /\ pc = "done"
    /\ top = Some(3)
    /\ R = 3 /\ C = 2
    /\ cell_properties = <<"Value">>
    /\ DistinctCoordinates
    /\ TuplesDict_len(result.value) = 3
    /\ cells_read = {0, 1, 2}

\* C6: with limit = 0 the call returns an empty result and reads no cell
C6_LimitZero ==
    top = Some(0) =>
        /\ cells_read = {}
        /\ pc # "raised"
        /\ pc = "done" => TuplesDict_len(result.value) = 0

\* C7: a pair the traversal reaches whose raw coordinate lacks a label of a
\* declared dimension makes the call fail with DimensionNotFound; the call
\* returns only when no pair it reached lacked one
C7_DimensionMismatch ==
    /\ [][(/\ pc = "inner"
           /\ ordinal_axe0 < C
           /\ MissingDimension(ordinal_axe1, ordinal_axe0))
             => (pc' = "raised" /\ result' = Raised(DimensionNotFound))]_vars
    /\ [](pc = "done" =>
            /\ result.status = "returned"
            /\ \A k \in 0..(ordinal_cells - 1) :
                  ~MissingDimension(RowOf(k), ColumnOf(k)))
    /\ [](result.status = "returned" => pc = "done")

\* the call failed on a dimension after it had accumulated two cells
C7_Witness ==
    /\ pc = "raised"
    /\ result = Raised(DimensionNotFound)
    /\ Len(content_as_dict) = 2
    /\ ordinal_cells = 2

====
